---- MODULE Spec2Model ----
(***************************************************************************)
(* Model of qmedianbuffer<T, timeT, resultingT> (src/qmedianbuffer.h): a   *)
(* fixed-capacity circular buffer with in-place order statistics.          *)
(*                                                                         *)
(* Instantiation modelled: T = uint8_t, timeT = uint8_t (the sample types  *)
(* the header names as the usual ones) and resultingT = a signed integer   *)
(* wide enough for every difference of two samples, so that its            *)
(* arithmetic never overflows and its division truncates toward zero.      *)
(***************************************************************************)
EXTENDS Integers, Sequences, FiniteSets, TLC

\* ---------------------------------------------------------------- bounds
MaxCapacity == 3      \* capacities 1..MaxCapacity are constructed
MaxSample == 2        \* pushed samples are 0..MaxSample
MaxTime == 1          \* push timestamps are 0..MaxTime, non-decreasing
MaxPushCount == 2     \* pushes stop when the push counter reaches this
MaxDistance == 1      \* maxDistanceFromMedian arguments 0..MaxDistance (and 255)
MaxFilled == 5        \* capacities 1..MaxFilled of the buffers constructed filled
MaxTimed == 4         \* capacities 2..MaxTimed of the buffers filled at chosen times
MaxSampled == 4       \* capacities 1..MaxSampled of the buffers filled with Samples
MaxSigned == 130      \* capacities MaxSigned - 2..MaxSigned of the int8_t buffers

\* ------------------------------------------------------- type parameters
TBits == 8            \* width of T
TimeBits == 8         \* width of timeT
CountBits == 8        \* width of uint8_t (positions, counts, insertOrder)
IntBits == 32         \* width of int: narrower operands are promoted to it
SignedTBits == 8      \* width of T in the instantiation with T = int8_t
WideTBits == 16       \* width of T in the instantiation with T = unsigned int
WideIntBits == 16     \* width of int where unsigned int has WideTBits bits

Pow2(n) == 2 ^ n

\* (uint8_t)x
castU8(x) == x % Pow2(CountBits)
\* (T)x
castT(x) == x % Pow2(TBits)
\* (T)x when T is int8_t
castSignedT(x) ==
    IF x % Pow2(SignedTBits) >= Pow2(SignedTBits - 1)
    THEN (x % Pow2(SignedTBits)) - Pow2(SignedTBits)
    ELSE x % Pow2(SignedTBits)
\* (timeT)x
castTimeT(x) == x % Pow2(TimeBits)

\* a - b on two T operands: in int when T is narrower than int, else modulo 2^w
subT(a, b) == IF TBits < IntBits THEN a - b ELSE (a - b) % Pow2(TBits)
\* a - b on two operands of an unsigned type of the given width: in int when
\* the type is narrower than int, else modulo 2^bits
subUnsigned(a, b, bits, intBits) ==
    IF bits < intBits THEN a - b ELSE (a - b) % Pow2(bits)
\* a - b on two T operands when T is unsigned int
subWideT(a, b) == subUnsigned(a, b, WideTBits, WideIntBits)
\* a - b on two timeT operands, computed modulo 2^TimeBits
subTimeTWrapped(a, b) == (a - b) % Pow2(TimeBits)

\* a - b on two timeT operands
subTimeT(a, b) == IF TimeBits < IntBits THEN a - b ELSE (a - b) % Pow2(TimeBits)

\* resultingT division: truncation toward zero (divisor > 0)
divResultingT(a, b) == IF a >= 0 THEN a \div b ELSE -((-a) \div b)

absX(value) == IF value < 0 THEN -1 * value ELSE value

\* itemQ{}: the value-initialised item
emptyItem == [insertOrder |-> 0, value |-> 0, time |-> 0]

Values == 0..MaxSample
Times == 0..MaxTime
Distances == (0..MaxDistance) \cup {Pow2(CountBits) - 1}

\* ------------------------------------------------------------------ state
VARIABLES
    capacity,                \* _capacity
    items,                   \* items[0.._capacity-1]
    head,                    \* _head
    tail,                    \* _tail
    isFullFlag,              \* _isFull
    pushCount,               \* _pushCount
    valuesAreGoodIntervals,
    lastOp,                  \* the public operation that has just returned,
                             \* "none" once the caller is done with its result
    arg,                     \* its maxDistanceFromMedian argument (0 if none)
    ret,                     \* its return value (0 for void, 0/1 for bool)
    fault,                   \* undefined behaviour it ran into, or "none"
    fifo,                    \* history: the surviving pushes, oldest first
    overwritten,             \* history: intervalsToValues rewrote live values
    evicted,                 \* history: the last push displaced the oldest item
    lastTime                 \* the caller's clock: timestamp of the last push

vars == <<capacity, items, head, tail, isFullFlag, pushCount,
          valuesAreGoodIntervals, lastOp, arg, ret, fault, fifo,
          overwritten, evicted, lastTime>>

buffer == <<capacity, items, head, tail, isFullFlag, pushCount,
            valuesAreGoodIntervals>>

history == <<fifo, overwritten, evicted, lastTime>>

\* --------------------------------------------------------------- getters
isFull == isFullFlag

\* an emptiness test that does not look at _isFull
isEmptyIgnoringFull == head = tail

isEmpty == (~isFullFlag) /\ (head = tail)

getCount ==
    IF ~isFullFlag
    THEN IF head >= tail THEN castU8(head - tail)
                         ELSE castU8(capacity + head - tail)
    ELSE capacity

getPushCount == pushCount

getTruePos(posSeek, tl, cap) == (castU8(posSeek) + tl) % cap

\* the slot getItemAtPositionPtr(position) points to, buffer not empty
getItemAtPositionPtr(position) ==
    IF position = 0 THEN tail ELSE castU8((tail + position) % capacity)

getItemValue(item) == item.value

getItemInsertOrder(item) == castT(item.insertOrder)

\* the live window of an array, oldest first
WindowOf(arr) ==
    [i \in 1..getCount |-> arr[getItemAtPositionPtr(i - 1)]]

Window == WindowOf(items)

\* ------------------------------------------------- sort (insertion sort)
\* getSortValueFunc: "value" is getItemValue, "insertOrder" is getItemInsertOrder
\* "insertOrderSignedT" is getItemInsertOrder when T is int8_t
getItemInsertOrderSignedT(item) == castSignedT(item.insertOrder)

\* a sort that is always handed getItemValue
sortKeyAlwaysValue(item, by) == getItemValue(item)

sortKey(item, by) ==
    IF by = "value" THEN getItemValue(item)
    ELSE IF by = "insertOrder" THEN getItemInsertOrder(item)
    ELSE getItemInsertOrderSignedT(item)

\* the while loop of sort: shift larger keys up, then drop tmp at j + 1
RECURSIVE sortWhile(_, _, _, _, _, _)
sortWhile(j, tmp, tl, arr, cap, by) ==
    IF j >= 0 /\ sortKey(arr[getTruePos(j, tl, cap)], by) > sortKey(tmp, by)
    THEN sortWhile(j - 1, tmp, tl,
                   [arr EXCEPT ![getTruePos(j + 1, tl, cap)] =
                                   arr[getTruePos(j, tl, cap)]],
                   cap, by)
    ELSE [arr EXCEPT ![getTruePos(j + 1, tl, cap)] = tmp]

\* the for loop of sort, from i
RECURSIVE sortFor(_, _, _, _, _, _)
sortFor(i, tl, len, arr, cap, by) ==
    IF i < len
    THEN sortFor(i + 1, tl, len,
                 sortWhile(i - 1, arr[getTruePos(i, tl, cap)], tl, arr, cap, by),
                 cap, by)
    ELSE arr

sort(tl, len, arr, cap, by) == sortFor(1, tl, len, arr, cap, by)

\* the passes lo .. hi - 1 of the for loop of sort, one after the other: the
\* span is halved and each array is evaluated before the next pass starts,
\* which keeps the evaluation of a long window shallow
RECURSIVE sortPasses(_, _, _, _, _, _)
sortPasses(lo, hi, tl, arr, cap, by) ==
    IF hi <= lo \/ DOMAIN arr = {} THEN arr
    ELSE IF hi = lo + 1
    THEN sortWhile(lo - 1, arr[getTruePos(lo, tl, cap)], tl, arr, cap, by)
    ELSE sortPasses((lo + hi) \div 2, hi, tl,
                    sortPasses(lo, (lo + hi) \div 2, tl, arr, cap, by), cap, by)

\* sort on a long window
sortLong(tl, len, arr, cap, by) == sortPasses(1, len, tl, arr, cap, by)

\* ------------------------------------------------------- order functions
\* a tagging that leaves every live item the tag 0
resetItemOrderAllZero(arr) ==
    [s \in DOMAIN arr |->
        IF \E i \in 0..(getCount - 1) : getItemAtPositionPtr(i) = s
        THEN [arr[s] EXCEPT !.insertOrder = 0]
        ELSE arr[s]]

resetItemOrderOldestToZero(arr) ==
    [s \in DOMAIN arr |->
        IF \E i \in 0..(getCount - 1) : getItemAtPositionPtr(i) = s
        THEN [arr[s] EXCEPT !.insertOrder =
                 CHOOSE i \in 0..(getCount - 1) : getItemAtPositionPtr(i) = s]
        ELSE arr[s]]

\* a restore that does nothing
sortToInsertSequenceSkipped(arr) == arr

sortToInsertSequence(arr) ==
    IF ~isEmpty THEN sort(tail, getCount, arr, capacity, "insertOrder") ELSE arr

\* sortToInsertSequence and sortToValues when T is int8_t
sortToInsertSequenceSignedT(arr) ==
    IF ~isEmpty
    THEN sortLong(tail, getCount, arr, capacity, "insertOrderSignedT")
    ELSE arr

sortToValuesSignedT(arr, len) ==
    IF ~isEmpty
    THEN sortLong(tail, len, resetItemOrderOldestToZero(arr), capacity, "value")
    ELSE arr

sortToValues(arr, len) ==
    IF ~isEmpty
    THEN sort(tail, len, resetItemOrderOldestToZero(arr), capacity, "value")
    ELSE arr

\* ------------------------------------------------------ intervalsToValues
\* whether intervalsToValues rewrites the values
intervalsToValuesRuns == (~valuesAreGoodIntervals) /\ getCount >= 2

\* an intervalsToValues that leaves the newest item its pushed value
intervalsToValuesNewestKept(arr) ==
    IF intervalsToValuesRuns
    THEN [s \in DOMAIN arr |->
            IF \E i \in 0..(getCount - 2) : getItemAtPositionPtr(i) = s
            THEN LET i == CHOOSE k \in 0..(getCount - 2) : getItemAtPositionPtr(k) = s
                     itemNext == arr[getItemAtPositionPtr(i + 1)]
                 IN [arr[s] EXCEPT !.value =
                        castT(castTimeT(itemNext.time - arr[s].time))]
            ELSE arr[s]]
    ELSE arr

intervalsToValues(arr) ==
    IF intervalsToValuesRuns
    THEN [s \in DOMAIN arr |->
            IF \E i \in 0..(getCount - 2) : getItemAtPositionPtr(i) = s
            THEN LET i == CHOOSE k \in 0..(getCount - 2) : getItemAtPositionPtr(k) = s
                     itemNext == arr[getItemAtPositionPtr(i + 1)]
                 IN [arr[s] EXCEPT !.value =
                        castT(castTimeT(itemNext.time - arr[s].time))]
            ELSE IF getItemAtPositionPtr(getCount - 1) = s
                 THEN [arr[s] EXCEPT !.value = 0]
                 ELSE arr[s]]
    ELSE arr

\* ---------------------------------------- static median/average functions
\* the loop of _average from i: avg = (itemValue - avg) / (i + 1) + avg
\* a running average whose step forgets the average so far
RECURSIVE averageForDropsAvg(_, _, _, _, _, _, _)
averageForDropsAvg(i, avg, tl, len, arr, cap, by) ==
    IF i < len
    THEN LET itemValue == sortKey(arr[getTruePos(i, tl, cap)], by)
         IN averageForDropsAvg(i + 1, divResultingT(itemValue - avg, i + 1),
                               tl, len, arr, cap, by)
    ELSE avg

RECURSIVE averageFor(_, _, _, _, _, _, _)
averageFor(i, avg, tl, len, arr, cap, by) ==
    IF i < len
    THEN LET itemValue == sortKey(arr[getTruePos(i, tl, cap)], by)
         IN averageFor(i + 1, divResultingT(itemValue - avg, i + 1) + avg,
                       tl, len, arr, cap, by)
    ELSE avg

_average(tl, len, arr, cap, by) == averageFor(0, 0, tl, len, arr, cap, by)

\* the loop of _meanAbsoluteDeviationAroundAverage from i
RECURSIVE madaFor(_, _, _, _, _, _, _, _)
madaFor(i, mada, avg, tl, len, arr, cap, by) ==
    IF i < len
    THEN LET arrayValue == sortKey(arr[getTruePos(i, tl, cap)], by)
         IN madaFor(i + 1,
                    divResultingT(absX(arrayValue - avg) - mada, i + 1) + mada,
                    avg, tl, len, arr, cap, by)
    ELSE mada

_meanAbsoluteDeviationAroundAverage(tl, len, arr, cap, by) ==
    madaFor(0, 0, _average(tl, len, arr, cap, by), tl, len, arr, cap, by)

\* a median that picks the lower middle of an even length
_medianLowerMiddle(tl, len, arr, cap, by) ==
    IF len = 0 THEN 0
    ELSE sortKey(arr[getTruePos((len - 1) \div 2, tl, cap)], by)

_median(tl, len, arr, cap, by) ==
    IF len = 0 THEN 0
    ELSE IF len = 1 THEN sortKey(arr[getTruePos(0, tl, cap)], by)
    ELSE sortKey(arr[getTruePos(len \div 2, tl, cap)], by)

\* no correction for an even length
evenNumCorrectionNone(len) == 0

evenNumCorrection(len) == IF len % 2 = 0 THEN 1 ELSE 0

\* maxDistanceFromMedian after "if (maxDistanceFromMedian > len / 2) ..."
clampDistance(len, maxDistanceFromMedian) ==
    IF maxDistanceFromMedian > len \div 2 THEN len \div 2
                                          ELSE maxDistanceFromMedian

\* len / 2 - maxDistanceFromMedian - evenNumCorrection, in int, before it is
\* stored in the uint8_t startpos
startposInt(len, maxDistanceFromMedian) ==
    len \div 2 - clampDistance(len, maxDistanceFromMedian) - evenNumCorrection(len)

startpos(len, maxDistanceFromMedian) ==
    castU8(startposInt(len, maxDistanceFromMedian))

total(len, maxDistanceFromMedian) ==
    castU8(1 + 2 * clampDistance(len, maxDistanceFromMedian)
             + evenNumCorrection(len))

\* the loop of _medianAverage from i
RECURSIVE medianAverageFor(_, _, _, _, _, _, _, _)
medianAverageFor(i, avgN, start, tot, tl, arr, cap, by) ==
    IF i < tot
    THEN LET mPosition == sortKey(arr[getTruePos(start + i, tl, cap)], by)
         IN medianAverageFor(i + 1, divResultingT(mPosition - avgN, i + 1) + avgN,
                             start, tot, tl, arr, cap, by)
    ELSE avgN

_medianAverage(tl, len, maxDistanceFromMedian, arr, cap, by) ==
    IF len = 0 THEN 0
    ELSE IF len = 1 THEN sortKey(arr[getTruePos(0, tl, cap)], by)
    ELSE medianAverageFor(0, 0, startpos(len, maxDistanceFromMedian),
                          total(len, maxDistanceFromMedian), tl, arr, cap, by)

\* the loop of _meanAbsoluteDeviationAroundMedianAverage from i
RECURSIVE madMedianFor(_, _, _, _, _, _, _, _, _)
madMedianFor(i, avgMAD, med, start, tot, tl, arr, cap, by) ==
    IF i < tot
    THEN LET mPosition == sortKey(arr[getTruePos(start + i, tl, cap)], by)
         IN madMedianFor(i + 1,
                divResultingT(absX(mPosition - med) - avgMAD, i + 1) + avgMAD,
                med, start, tot, tl, arr, cap, by)
    ELSE avgMAD

_meanAbsoluteDeviationAroundMedianAverage(tl, len, maxDistanceFromMedian, arr, cap, by) ==
    IF len < 2 THEN 0
    ELSE madMedianFor(0, 0,
            _medianAverage(tl, len, maxDistanceFromMedian, arr, cap, by),
            startpos(len, maxDistanceFromMedian),
            total(len, maxDistanceFromMedian), tl, arr, cap, by)

\* ------------------------------------------------------------ call record
\* operation op, called with distance argument a, returned r; f names the
\* undefined behaviour the call ran into
Returns(op, a, r, f) ==
    /\ lastOp' = op
    /\ arg' = a
    /\ ret' = r
    /\ fault' = f

\* the caller is between two calls
idle == lastOp = "none"

\* a value read through the dangling pointer getItemAtPositionPtr returns on
\* an empty buffer, or produced by a division by zero: any one
Undefined == Values

\* ----------------------------------------------------------- construction
Init ==
    /\ capacity \in 1..MaxCapacity
    /\ items = [s \in 0..(capacity - 1) |-> emptyItem]
    /\ head = 0
    /\ tail = 0
    /\ isFullFlag = FALSE
    /\ pushCount = 0
    /\ valuesAreGoodIntervals = FALSE
    /\ lastOp = "none"
    /\ arg = 0
    /\ ret = 0
    /\ fault = "none"
    /\ fifo = <<>>
    /\ overwritten = FALSE
    /\ evicted = FALSE
    /\ lastTime = 0

\* ---------------------------------------------------------- pop push peek
\* a push that leaves the tail where it is when the buffer is full
pushTailKept == tail

\* _tail after "if (_isFull) _tail = (_tail + 1) % _capacity"
pushTail == IF isFullFlag THEN (tail + 1) % capacity ELSE tail

\* push(number, currentTime). On a buffer constructed with capacity 0 the
\* call writes items[0] of an array of no items and computes
\* (_head + 1) % 0: it does not return.
push(number, currentTime) ==
    /\ idle
    /\ currentTime >= lastTime
    /\ pushCount' = castU8(pushCount + 1)
    /\ valuesAreGoodIntervals' = FALSE
    /\ IF capacity = 0
       THEN /\ Returns("push", 0, 0, "modzero")
            /\ UNCHANGED <<items, head, tail, isFullFlag, fifo, lastTime, evicted>>
       ELSE /\ items' = [items EXCEPT ![head] =
                    [insertOrder |-> 0, value |-> number, time |-> currentTime]]
            /\ tail' = pushTail
            /\ head' = (head + 1) % capacity
            /\ isFullFlag' = (head' = tail')
            /\ Returns("push", 0, 0, "none")
            /\ fifo' = LET new == [value |-> number, time |-> currentTime]
                       IN IF Len(fifo) >= capacity THEN Append(Tail(fifo), new)
                                                   ELSE Append(fifo, new)
            /\ lastTime' = currentTime
            /\ evicted' = (Len(fifo) >= capacity)
    /\ UNCHANGED <<capacity, overwritten>>

\* a push while the push counter is below MaxPushCount
Push(number, currentTime) ==
    /\ pushCount < MaxPushCount
    /\ push(number, currentTime)

\* what pop() does to the buffer when it is not empty
popItem ==
    /\ valuesAreGoodIntervals' = FALSE
    /\ isFullFlag' = FALSE
    /\ tail' = (tail + 1) % capacity
    /\ fifo' = IF fifo = <<>> THEN fifo ELSE Tail(fifo)
    /\ overwritten' = IF Len(fifo) <= 1 THEN FALSE ELSE overwritten
    /\ evicted' = IF Len(fifo) <= 1 THEN FALSE ELSE evicted
    /\ UNCHANGED <<capacity, items, head, pushCount, lastTime>>

Pop ==
    /\ idle
    /\ IF isEmpty
       THEN /\ Returns("pop", 0, 0, "none")
            /\ UNCHANGED <<buffer, history>>
       ELSE /\ popItem
            /\ Returns("pop", 0, items[getItemAtPositionPtr(0)].value, "none")

\* a peek() that returns the value of the newest item
PeekNewest ==
    /\ idle
    /\ IF isEmpty
       THEN \E v \in Undefined : Returns("peek", 0, v, "dangling")
       ELSE Returns("peek", 0, items[(head - 1) % capacity].value, "none")
    /\ UNCHANGED <<buffer, history>>

Peek ==
    /\ idle
    /\ IF isEmpty
       THEN \E v \in Undefined : Returns("peek", 0, v, "dangling")
       ELSE Returns("peek", 0, items[getItemAtPositionPtr(0)].value, "none")
    /\ UNCHANGED <<buffer, history>>

PeekTime ==
    /\ idle
    /\ IF isEmpty
       THEN \E v \in Undefined : Returns("peekTime", 0, v, "dangling")
       ELSE Returns("peekTime", 0, items[getItemAtPositionPtr(0)].time, "none")
    /\ UNCHANGED <<buffer, history>>

\* the call record keeps both arguments; true is returned as 1, false as 0
DeleteOld(currentTimeStamp, interval) ==
    /\ idle
    /\ IF isEmpty
       THEN /\ Returns("deleteOld", <<currentTimeStamp, interval>>, 0, "none")
            /\ UNCHANGED <<buffer, history>>
       ELSE IF subTimeT(currentTimeStamp, items[getItemAtPositionPtr(0)].time) < interval
            THEN /\ popItem
                 /\ Returns("deleteOld", <<currentTimeStamp, interval>>, 1, "none")
            ELSE /\ Returns("deleteOld", <<currentTimeStamp, interval>>, 0, "none")
                 /\ UNCHANGED <<buffer, history>>

Clear ==
    /\ idle
    /\ head' = tail
    /\ isFullFlag' = FALSE
    /\ Returns("clear", 0, 0, "none")
    /\ fifo' = <<>>
    /\ overwritten' = FALSE
    /\ evicted' = FALSE
    /\ UNCHANGED <<capacity, items, tail, pushCount, valuesAreGoodIntervals, lastTime>>

ResetPushCount ==
    /\ idle
    /\ pushCount' = 0
    /\ Returns("resetPushCount", 0, 0, "none")
    /\ UNCHANGED <<capacity, items, head, tail, isFullFlag,
                   valuesAreGoodIntervals, history>>

\* --------------------------------------------------- read-only statistics
\* what no statistic touches
statFrame == UNCHANGED <<capacity, head, tail, isFullFlag, pushCount, fifo, evicted, lastTime>>

\* a statistic that numbers the live items by age before it returns
readOnlyButTagged ==
    /\ statFrame
    /\ items' = resetItemOrderOldestToZero(items)
    /\ UNCHANGED <<valuesAreGoodIntervals, overwritten>>

\* a statistic that does not write the array either
readOnly == statFrame /\ UNCHANGED <<items, valuesAreGoodIntervals, overwritten>>

\* the loop of minValue from i
RECURSIVE minFor(_, _)
minFor(i, tempMinV) ==
    IF i < getCount
    THEN LET testValue == items[getItemAtPositionPtr(i)].value
         IN minFor(i + 1, IF testValue < tempMinV THEN testValue ELSE tempMinV)
    ELSE tempMinV

\* the loop of maxValue from i
RECURSIVE maxFor(_, _)
maxFor(i, tempMaxV) ==
    IF i < getCount
    THEN LET testValue == items[getItemAtPositionPtr(i)].value
         IN maxFor(i + 1, IF testValue > tempMaxV THEN testValue ELSE tempMaxV)
    ELSE tempMaxV

\* a minimum taken over every slot of the array
minValueOfAllSlots ==
    CHOOSE v \in {items[s].value : s \in DOMAIN items} :
        \A s \in DOMAIN items : items[s].value >= v

\* minValue() and maxValue() on a buffer that is not empty
minValue == minFor(1, items[getItemAtPositionPtr(0)].value)

maxValue == maxFor(1, items[getItemAtPositionPtr(0)].value)

MinValue ==
    /\ idle
    /\ IF isEmpty
       THEN \E v \in Undefined : Returns("minValue", 0, v, "dangling")
       ELSE Returns("minValue", 0, minValue, "none")
    /\ readOnly

MaxValue ==
    /\ idle
    /\ IF isEmpty
       THEN \E v \in Undefined : Returns("maxValue", 0, v, "dangling")
       ELSE Returns("maxValue", 0, maxValue, "none")
    /\ readOnly

Range ==
    /\ idle
    /\ IF isEmpty
       THEN \E a \in Undefined, b \in Undefined :
                Returns("range", 0, castT(subT(a, b)), "dangling")
       ELSE Returns("range", 0, castT(subT(maxValue, minValue)), "none")
    /\ readOnly

\* the loop of occurenceOfValue from i
RECURSIVE occurenceFor(_, _, _, _)
occurenceFor(i, nOfTimes, testValue, epsilon) ==
    IF i < getCount
    THEN LET arrayValue == items[getItemAtPositionPtr(i)].value
         IN occurenceFor(i + 1,
                IF absX(subT(arrayValue, testValue)) < epsilon
                THEN castU8(nOfTimes + 1) ELSE nOfTimes,
                testValue, epsilon)
    ELSE nOfTimes

occurenceOfValue(testValue, epsilon) == occurenceFor(0, 0, testValue, epsilon)

OccurenceOfValue(testValue, epsilon) ==
    /\ idle
    /\ Returns("occurenceOfValue", 0, occurenceOfValue(testValue, epsilon), "none")
    /\ readOnly

FrequencyOfValue(testValue, epsilon) ==
    /\ idle
    /\ IF getCount = 0
       THEN \E v \in Undefined : Returns("frequencyOfValue", 0, v, "divzero")
       ELSE Returns("frequencyOfValue", 0,
                divResultingT(occurenceOfValue(testValue, epsilon), getCount), "none")
    /\ readOnly

\* occurenceOfValue and frequencyOfValue when T is unsigned int
RECURSIVE occurenceForWideT(_, _, _, _)
occurenceForWideT(i, nOfTimes, testValue, epsilon) ==
    IF i < getCount
    THEN LET arrayValue == items[getItemAtPositionPtr(i)].value
         IN occurenceForWideT(i + 1,
                IF absX(subWideT(arrayValue, testValue)) < epsilon
                THEN castU8(nOfTimes + 1) ELSE nOfTimes,
                testValue, epsilon)
    ELSE nOfTimes

occurenceOfValueWideT(testValue, epsilon) ==
    occurenceForWideT(0, 0, testValue, epsilon)

OccurenceOfValueWideT(testValue, epsilon) ==
    /\ idle
    /\ Returns("occurenceOfValue", <<testValue, epsilon>>,
               occurenceOfValueWideT(testValue, epsilon), "none")
    /\ readOnly

FrequencyOfValueWideT(testValue, epsilon) ==
    /\ idle
    /\ IF getCount = 0
       THEN \E v \in Undefined :
               Returns("frequencyOfValue", <<testValue, epsilon>>, v, "divzero")
       ELSE Returns("frequencyOfValue", <<testValue, epsilon>>,
                divResultingT(occurenceOfValueWideT(testValue, epsilon), getCount),
                "none")
    /\ readOnly

Average ==
    /\ idle
    /\ Returns("average", 0, _average(tail, getCount, items, capacity, "value"), "none")
    /\ readOnly

MeanAbsoluteDeviationAroundAverage ==
    /\ idle
    /\ Returns("meanAbsoluteDeviationAroundAverage", 0,
               _meanAbsoluteDeviationAroundAverage(tail, getCount, items,
                                                   capacity, "value"), "none")
    /\ readOnly

\* ---------------------------------------------------- sorting statistics
sorting == statFrame /\ UNCHANGED <<valuesAreGoodIntervals, overwritten>>

\* median(), medianAverage() and meanAbsoluteDeviationAroundMedianAverage()
\* called when the array is arr: the array they leave behind
restoredFrom(arr) == sortToInsertSequence(sortToValues(arr, getCount))

\* what median() returns when the array is arr
medianFrom(arr) ==
    _median(tail, getCount, sortToValues(arr, getCount), capacity, "value")

\* what medianAverage(maxDistanceFromMedian) returns when the array is arr
medianAverageFrom(arr, maxDistanceFromMedian) ==
    _medianAverage(tail, getCount, maxDistanceFromMedian, sortToValues(arr, getCount), capacity, "value")

\* what meanAbsoluteDeviationAroundMedianAverage(maxDistanceFromMedian)
\* returns when the array is arr
meanAbsoluteDeviationAroundMedianAverageFrom(arr, maxDistanceFromMedian) ==
    _meanAbsoluteDeviationAroundMedianAverage(tail, getCount, maxDistanceFromMedian, sortToValues(arr, getCount), capacity, "value")

valuesRestored == restoredFrom(items)

median == medianFrom(items)

medianAverage(maxDistanceFromMedian) ==
    medianAverageFrom(items, maxDistanceFromMedian)

meanAbsoluteDeviationAroundMedianAverage(maxDistanceFromMedian) ==
    meanAbsoluteDeviationAroundMedianAverageFrom(items, maxDistanceFromMedian)

Median ==
    /\ idle
    /\ items' = valuesRestored
    /\ Returns("median", 0, median, "none")
    /\ sorting

\* median() when T is int8_t
MedianSignedT ==
    /\ idle
    /\ items' = sortToInsertSequenceSignedT(sortToValuesSignedT(items, getCount))
    /\ Returns("median", 0,
               _median(tail, getCount, sortToValuesSignedT(items, getCount),
                       capacity, "value"),
               "none")
    /\ sorting

MedianAverage(maxDistanceFromMedian) ==
    /\ idle
    /\ items' = valuesRestored
    /\ Returns("medianAverage", maxDistanceFromMedian,
               medianAverage(maxDistanceFromMedian), "none")
    /\ sorting

\* medianAverage(): the distance is getCount() / 4
MedianAverageDefault ==
    /\ idle
    /\ items' = valuesRestored
    /\ Returns("medianAverageDefault", 0, medianAverage(castU8(getCount \div 4)), "none")
    /\ sorting

MeanAbsoluteDeviationAroundMedianAverage(maxDistanceFromMedian) ==
    /\ idle
    /\ items' = valuesRestored
    /\ Returns("meanAbsoluteDeviationAroundMedianAverage", maxDistanceFromMedian,
               meanAbsoluteDeviationAroundMedianAverage(maxDistanceFromMedian), "none")
    /\ sorting

\* ---------------------------------------------------- interval statistics
\* an interval statistic on 2 or more items: intervalsToValues has run
intervals ==
    /\ statFrame
    /\ valuesAreGoodIntervals' = TRUE
    /\ overwritten' = (overwritten \/ intervalsToValuesRuns)

\* a sort that takes in the newest item, whose value is the manufactured 0
intervalsSortedWithNewest == sortToValues(intervalsToValues(items), getCount)

\* the array medianInterval() and medianAverageInterval() read: intervals in
\* the values, all but the newest item sorted by value
intervalsSorted == sortToValues(intervalsToValues(items), castU8(getCount - 1))

\* medianInterval() on 2 or more items
medianInterval == _median(tail, castU8(getCount - 1), intervalsSorted, capacity, "value")

\* medianAverageInterval(maxDistanceFromMedian) on 2 or more items
medianAverageInterval(maxDistanceFromMedian) ==
    _medianAverage(tail, castU8(getCount - 1), maxDistanceFromMedian,
                   intervalsSorted, capacity, "value")

\* averageInterval() on 2 or more items
averageInterval ==
    _average(tail, castU8(getCount - 1), intervalsToValues(items), capacity, "value")

\* return 1 / x: a division by zero when x = 0
oneOver(op, a, x) ==
    IF x = 0
    THEN \E v \in Undefined : Returns(op, a, v, "divzero")
    ELSE Returns(op, a, divResultingT(1, x), "none")

MedianInterval ==
    /\ idle
    /\ IF getCount < 2
       THEN Returns("medianInterval", 0, 0, "none") /\ readOnly
       ELSE /\ items' = sortToInsertSequence(intervalsSorted)
            /\ Returns("medianInterval", 0, medianInterval, "none")
            /\ intervals

MedianAverageInterval(maxDistanceFromMedian) ==
    /\ idle
    /\ IF getCount < 2
       THEN Returns("medianAverageInterval", maxDistanceFromMedian, 0, "none") /\ readOnly
       ELSE /\ items' = sortToInsertSequence(intervalsSorted)
            /\ Returns("medianAverageInterval", maxDistanceFromMedian,
                       medianAverageInterval(maxDistanceFromMedian), "none")
            /\ intervals

\* averageInterval() without its check of the length
AverageIntervalUnguarded ==
    /\ idle
    /\ items' = intervalsToValues(items)
    /\ Returns("averageInterval", 0,
               IF getCount = 0 THEN 0 ELSE averageInterval, "none")
    /\ intervals

AverageInterval ==
    /\ idle
    /\ IF getCount < 2
       THEN Returns("averageInterval", 0, 0, "none") /\ readOnly
       ELSE /\ items' = intervalsToValues(items)
            /\ Returns("averageInterval", 0, averageInterval, "none")
            /\ intervals

MedianRateOfChange ==
    /\ idle
    /\ IF getCount < 2
       THEN Returns("medianRateOfChange", 0, 0, "none") /\ readOnly
       ELSE /\ items' = sortToInsertSequence(intervalsSorted)
            /\ oneOver("medianRateOfChange", 0, medianInterval)
            /\ intervals

MedianAverageRateOfChange(maxDistanceFromMedian) ==
    /\ idle
    /\ IF getCount < 2
       THEN Returns("medianAverageRateOfChange", maxDistanceFromMedian, 0, "none") /\ readOnly
       ELSE /\ items' = sortToInsertSequence(intervalsSorted)
            /\ oneOver("medianAverageRateOfChange", maxDistanceFromMedian,
                       medianAverageInterval(maxDistanceFromMedian))
            /\ intervals

AverageRateOfChange ==
    /\ idle
    /\ IF getCount < 2
       THEN Returns("averageRateOfChange", 0, 0, "none") /\ readOnly
       ELSE /\ items' = intervalsToValues(items)
            /\ oneOver("averageRateOfChange", 0, averageInterval)
            /\ intervals

\* ---------------------------------------------------------- specification
\* the caller is done with the result of the last call; the buffer is as the
\* call left it
\* (a call that computed a modulo by zero has not returned)
Forget ==
    /\ lastOp # "none"
    /\ fault # "modzero"
    /\ Returns("none", 0, 0, "none")
    /\ UNCHANGED <<buffer, history>>

\* one call of a public operation
Call ==
    \/ \E number \in Values, currentTime \in Times : Push(number, currentTime)
    \/ Pop
    \/ Peek
    \/ PeekTime
    \/ \E currentTimeStamp \in Times, interval \in Times :
           DeleteOld(currentTimeStamp, interval)
    \/ Clear
    \/ ResetPushCount
    \/ MinValue
    \/ MaxValue
    \/ Range
    \/ \E testValue \in Values, epsilon \in Values :
           OccurenceOfValue(testValue, epsilon)
    \/ \E testValue \in Values, epsilon \in Values :
           FrequencyOfValue(testValue, epsilon)
    \/ Average
    \/ MeanAbsoluteDeviationAroundAverage
    \/ Median
    \/ MedianAverageDefault
    \/ \E d \in Distances : MedianAverage(d)
    \/ \E d \in Distances : MeanAbsoluteDeviationAroundMedianAverage(d)
    \/ MedianInterval
    \/ \E d \in Distances : MedianAverageInterval(d)
    \/ AverageInterval
    \/ MedianRateOfChange
    \/ \E d \in Distances : MedianAverageRateOfChange(d)
    \/ AverageRateOfChange

Next == Call \/ Forget

Spec == Init /\ [][Next]_vars

\* ------------------------------------- the median average on longer windows
\* the buffer after construction with a capacity up to MaxFilled, n pushes
\* of values at time 0 and resetPushCount()
InitFilled ==
    /\ capacity \in 1..MaxFilled
    /\ \E n \in 0..capacity :
          /\ \E pushed \in [0..(n - 1) -> Values] :
                /\ items = [s \in 0..(capacity - 1) |->
                               IF s < n
                               THEN [insertOrder |-> 0, value |-> pushed[s], time |-> 0]
                               ELSE emptyItem]
                /\ fifo = [i \in 1..n |-> [value |-> pushed[i - 1], time |-> 0]]
          /\ head = n % capacity
          /\ isFullFlag = (n = capacity)
    /\ tail = 0
    /\ pushCount = 0
    /\ valuesAreGoodIntervals = FALSE
    /\ lastOp = "none"
    /\ arg = 0
    /\ ret = 0
    /\ fault = "none"
    /\ overwritten = FALSE
    /\ evicted = FALSE
    /\ lastTime = 0

\* calls of medianAverage() and medianAverage(maxDistanceFromMedian)
NextFilled ==
    \/ MedianAverageDefault
    \/ \E d \in Distances : MedianAverage(d)
    \/ Forget

SpecFilled == InitFilled /\ [][NextFilled]_vars

\* ------------------------------------------- the smallest capacities
\* the buffer after qmedianbuffer(0) or qmedianbuffer(1): the constructor
\* stores the capacity it is given and allocates that many items
InitConstruct ==
    /\ capacity \in 0..1
    /\ items = [s \in 0..(capacity - 1) |-> emptyItem]
    /\ head = 0
    /\ tail = 0
    /\ isFullFlag = FALSE
    /\ pushCount = 0
    /\ valuesAreGoodIntervals = FALSE
    /\ lastOp = "none"
    /\ arg = 0
    /\ ret = 0
    /\ fault = "none"
    /\ fifo = <<>>
    /\ overwritten = FALSE
    /\ evicted = FALSE
    /\ lastTime = 0

SpecConstruct == InitConstruct /\ [][Next]_vars

\* ------------------------------------------------- long runs of pushes
\* the buffer after qmedianbuffer(1)
InitCounter == Init /\ capacity = 1

\* any number of pushes of one sample, with pops, clears, deletes, medians
\* and resets of the push counter between them
NextCounter ==
    \/ push(0, 0)
    \/ Pop
    \/ DeleteOld(0, 1)
    \/ Clear
    \/ Median
    \/ ResetPushCount
    \/ Forget

SpecCounter == InitCounter /\ [][NextCounter]_vars

\* ------------------------------------------------- after a clear()
\* a sample above the samples pushed after the clear()
StaleSample == 2 * MaxSample

\* the buffer after construction, capacity pushes of StaleSample at time 0,
\* resetPushCount() and clear(): empty, every slot still holding its item
InitCleared ==
    /\ capacity \in 1..MaxCapacity
    /\ items = [s \in 0..(capacity - 1) |->
                   [insertOrder |-> 0, value |-> StaleSample, time |-> 0]]
    /\ head = 0
    /\ tail = 0
    /\ isFullFlag = FALSE
    /\ pushCount = 0
    /\ valuesAreGoodIntervals = FALSE
    /\ lastOp = "none"
    /\ arg = 0
    /\ ret = 0
    /\ fault = "none"
    /\ fifo = <<>>
    /\ overwritten = FALSE
    /\ evicted = FALSE
    /\ lastTime = 0

\* pushes, pops, peeks, clears and the statistics of the values
NextCleared ==
    \/ \E number \in Values : Push(number, 0)
    \/ Pop
    \/ Peek
    \/ Clear
    \/ MinValue
    \/ MaxValue
    \/ Average
    \/ Median
    \/ MedianAverageDefault
    \/ \E d \in Distances : MedianAverage(d)
    \/ Forget

SpecCleared == InitCleared /\ [][NextCleared]_vars

\* --------------------------------- scans and averages of chosen samples
Samples == {2, 4, 9}

\* the buffer after construction with a capacity up to MaxSampled,
\* capacity + t pushes at time 0, the last capacity of them of Samples, and
\* resetPushCount(): a full buffer with its tail at t
InitSampled ==
    /\ capacity \in 1..MaxSampled
    /\ tail \in 0..(capacity - 1)
    /\ head = tail
    /\ isFullFlag = TRUE
    /\ \E pushed \in [0..(capacity - 1) -> Samples] :
          /\ items = [s \in 0..(capacity - 1) |->
                         [insertOrder |-> 0, value |-> pushed[(s - tail) % capacity],
                          time |-> 0]]
          /\ fifo = [i \in 1..capacity |-> [value |-> pushed[i - 1], time |-> 0]]
    /\ pushCount = 0
    /\ valuesAreGoodIntervals = FALSE
    /\ lastOp = "none"
    /\ arg = 0
    /\ ret = 0
    /\ fault = "none"
    /\ overwritten = FALSE
    /\ evicted = (tail > 0)
    /\ lastTime = 0

\* pushes, pops, the scans and the average
NextSampled ==
    \/ \E number \in Samples : Push(number, 0)
    \/ Pop
    \/ MinValue
    \/ MaxValue
    \/ Range
    \/ Average
    \/ Forget

SpecSampled == InitSampled /\ [][NextSampled]_vars

\* ------------------------------------ occurrences when T is unsigned int
Epsilons == 0..MaxSample

\* pushes, pops and the two counts around a test value
NextWideT ==
    \/ \E number \in Values : Push(number, 0)
    \/ Pop
    \/ \E testValue \in Values, epsilon \in Epsilons :
          OccurenceOfValueWideT(testValue, epsilon)
    \/ \E testValue \in Values, epsilon \in Epsilons :
          FrequencyOfValueWideT(testValue, epsilon)
    \/ Forget

SpecWideT == Init /\ [][NextWideT]_vars

\* ------------------------------------ long windows when T is int8_t
\* the buffer after construction with a capacity of MaxSigned - 2 to
\* MaxSigned, capacity pushes at the times 0, 1, 2, ... and resetPushCount()
InitSignedT ==
    /\ capacity \in (MaxSigned - 2)..MaxSigned
    /\ items = [s \in 0..(capacity - 1) |->
                   [insertOrder |-> 0, value |-> s % (MaxSample + 1), time |-> s]]
    /\ head = 0
    /\ tail = 0
    /\ isFullFlag = TRUE
    /\ pushCount = 0
    /\ valuesAreGoodIntervals = FALSE
    /\ lastOp = "none"
    /\ arg = 0
    /\ ret = 0
    /\ fault = "none"
    /\ fifo = [i \in 1..capacity |->
                  [value |-> (i - 1) % (MaxSample + 1), time |-> i - 1]]
    /\ overwritten = FALSE
    /\ evicted = FALSE
    /\ lastTime = capacity - 1

NextSignedT ==
    \/ MedianSignedT
    \/ Forget

SpecSignedT == InitSignedT /\ [][NextSignedT]_vars

\* ------------------------------------ interval statistics on longer windows
\* the time between two consecutive pushes
Gaps == {0, 10, 15}

\* the time of the push number k when gaps[i] passes between push i and i + 1
RECURSIVE timeOfPush(_, _)
timeOfPush(k, gaps) ==
    IF k = 0 THEN 0 ELSE timeOfPush(k - 1, gaps) + gaps[k]

\* the buffer after construction with a capacity up to MaxTimed, capacity + t
\* pushes, the last capacity of them of a value 0 or MaxSample each and at
\* times that start at 0 and grow by gaps, and resetPushCount(): a full buffer
\* with its tail at t
InitTimed ==
    /\ capacity \in 2..MaxTimed
    /\ tail \in 0..(capacity - 1)
    /\ head = tail
    /\ isFullFlag = TRUE
    /\ \E pushed \in [0..(capacity - 1) -> {0, MaxSample}],
          gaps \in [1..(capacity - 1) -> Gaps] :
          /\ items = [s \in 0..(capacity - 1) |->
                         LET k == (s - tail) % capacity
                         IN [insertOrder |-> 0, value |-> pushed[k],
                             time |-> timeOfPush(k, gaps)]]
          /\ fifo = [i \in 1..capacity |->
                         [value |-> pushed[i - 1], time |-> timeOfPush(i - 1, gaps)]]
          /\ lastTime = timeOfPush(capacity - 1, gaps)
    /\ pushCount = 0
    /\ valuesAreGoodIntervals = FALSE
    /\ lastOp = "none"
    /\ arg = 0
    /\ ret = 0
    /\ fault = "none"
    /\ overwritten = FALSE
    /\ evicted = (tail > 0)

\* pushes, pops, medians and interval statistics
NextTimed ==
    \/ Push(0, lastTime + 10)
    \/ Pop
    \/ Median
    \/ MedianInterval
    \/ AverageInterval
    \/ Forget

SpecTimed == InitTimed /\ [][NextTimed]_vars

\* ================================================================ claims
WindowValues == [i \in 1..Len(Window) |-> Window[i].value]

WindowTimes == [i \in 1..Len(Window) |-> Window[i].time]

\* the (value, time) pairs of an array's live window, tail to head
WindowPairsOf(arr) ==
    [i \in 1..getCount |-> <<WindowOf(arr)[i].value, WindowOf(arr)[i].time>>]

WindowPairs == WindowPairsOf(items)

fifoValues == [i \in 1..Len(fifo) |-> fifo[i].value]

fifoTimes == [i \in 1..Len(fifo) |-> fifo[i].time]

\* C1, as claimed: every pop of a non-empty buffer returns the value of the
\* oldest push not yet popped, whatever statistics, the interval family
\* included, were called since the pushes.
C1_PopsReturnPushedValues ==
    [][(lastOp' = "pop" /\ fifo # <<>>) => ret' = Head(fifo).value]_vars

\* C1, amended: every pop of a non-empty buffer returns the value of the
\* oldest push not yet popped, whatever statistics were called since the
\* pushes, provided no interval statistic has rewritten the values of two or
\* more live items since the buffer was last empty.
C1_PopsReturnPushedValuesUnlessIntervals ==
    [][(lastOp' = "pop" /\ fifo # <<>> /\ ~overwritten) => ret' = Head(fifo).value]_vars

\* C1 witness: a pop has returned a non-zero pushed value from a window that
\* a sorting statistic would reorder, with no interval statistic before it.
C1_Witness ==
    /\ lastOp = "pop"
    /\ ret = 2
    /\ ~overwritten
    /\ getCount >= 2
    /\ \A i \in 1..Len(fifo) : fifo[i].value < 2

\* C2: a push on a full buffer leaves getCount() at capacity and the buffer
\* full, drops the oldest item and appends the pushed one; a push made when
\* capacity earlier pushes survive finds the buffer full and leaves it full;
\* and once a push has displaced an item, the pops that follow return the
\* most recent pushes, oldest of those first.
C2_CapacityOverwrite ==
    [][/\ (lastOp' = "push" /\ isFull) =>
            /\ getCount = capacity
            /\ getCount' = capacity
            /\ isFull'
            /\ evicted'
            /\ ~overwritten =>
                 WindowValues' = Append(Tail(WindowValues), fifo'[Len(fifo')].value)
       /\ (lastOp' = "push" /\ Len(fifo) >= capacity) =>
            (isFull /\ isFull' /\ getCount' = capacity)
       /\ (lastOp' = "pop" /\ evicted /\ ~overwritten) =>
            /\ ret' = Head(fifo).value
            /\ WindowValues' = Tail(fifoValues)
      ]_vars

\* C2 witness: after a push displaced an item of a buffer of capacity 3, the
\* first pop has returned.
C2_Witness ==
    /\ evicted
    /\ lastOp = "pop"
    /\ capacity = 3
    /\ getCount = 2
    /\ ret # 0
    /\ ~overwritten

\* C3: in every state the timestamps of the live window, read from the tail,
\* are the timestamps of the surviving pushes, oldest first.
C3_InsertionOrder == WindowTimes = fifoTimes

\* C3 witness: a sorting statistic has returned on a wrapped window whose
\* values are not in ascending order and whose timestamps differ.
C3_Witness ==
    /\ lastOp \in {"median", "medianAverage", "medianInterval",
                   "meanAbsoluteDeviationAroundMedianAverage"}
    /\ getCount >= 2
    /\ tail > head
    /\ Window[1].value > Window[2].value
    /\ Window[1].time < Window[2].time

\* what the order statistic op returns when called with distance a on the
\* array arr
orderStatistic(op, a, arr) ==
    CASE op = "median" -> medianFrom(arr)
      [] op = "medianAverage" -> medianAverageFrom(arr, a)
      [] op = "meanAbsoluteDeviationAroundMedianAverage" ->
            meanAbsoluteDeviationAroundMedianAverageFrom(arr, a)

\* C4: a call of median(), medianAverage(d) or
\* meanAbsoluteDeviationAroundMedianAverage(d) leaves the (value, time)
\* pairs of the window, head, tail and isFull as they were, and the same call
\* made again right after it returns the same result and leaves the same
\* window.
C4_IdempotentRestore ==
    [][lastOp' \in {"median", "medianAverage",
                    "meanAbsoluteDeviationAroundMedianAverage"} =>
          /\ WindowPairs' = WindowPairs
          /\ <<head, tail, isFullFlag>>' = <<head, tail, isFullFlag>>
          /\ orderStatistic(lastOp', arg', items') = ret'
          /\ WindowPairsOf(restoredFrom(items')) = WindowPairs
      ]_vars

\* C4 witness: an order statistic has returned on a window that runs over the
\* end of the array, holds a duplicate value and is not in ascending order.
C4_Witness ==
    /\ lastOp \in {"median", "medianAverage",
                   "meanAbsoluteDeviationAroundMedianAverage"}
    /\ getCount = 3
    /\ tail + getCount > capacity
    /\ Window[1].value > Window[2].value
    /\ Window[1].value = Window[3].value

\* the values v with at most len/2 window values below them and more than
\* len/2 window values not above them: index len/2 of the ascending window
atSortedIndex(k) ==
    {v \in {WindowValues[i] : i \in 1..Len(WindowValues)} :
        /\ Cardinality({i \in 1..Len(WindowValues) : WindowValues[i] < v}) <= k
        /\ Cardinality({i \in 1..Len(WindowValues) : WindowValues[i] <= v}) > k}

\* C5: median() returns 0 on an empty buffer, the single value of one item,
\* and otherwise the value at index len/2 of the window's values in ascending
\* order, which is one of the window's values.
C5_MedianExact ==
    lastOp = "median" =>
        IF getCount = 0 THEN ret = 0
        ELSE IF getCount = 1 THEN ret = WindowValues[1]
        ELSE ret \in atSortedIndex(getCount \div 2)

\* C5 witness: median() has returned the upper middle of a wrapped window of
\* even length whose two values differ.
C5_Witness ==
    /\ lastOp = "median"
    /\ getCount = 2
    /\ tail > head
    /\ WindowValues[1] > WindowValues[2]
    /\ ret = WindowValues[1]

\* the length of the window the last call's median average ran on
windowLen ==
    IF lastOp \in {"medianAverageInterval", "medianAverageRateOfChange"}
    THEN castU8(getCount - 1) ELSE getCount

\* the logical positions the loop of _medianAverage passes to getTruePos
positionsRead(len, maxDistanceFromMedian) ==
    {castU8(startpos(len, maxDistanceFromMedian) + i) :
        i \in 0..(total(len, maxDistanceFromMedian) - 1)}

\* C6, as claimed: after medianAverage(d), medianAverageInterval(d) or
\* meanAbsoluteDeviationAroundMedianAverage(d) on a window of length len >= 2,
\* for any d, the start position computed was >= 0 before it was stored in 8
\* bits, start + total <= len, and every position read is inside [0, len).
C6_WindowInsideLiveLength ==
    (/\ lastOp \in {"medianAverage", "medianAverageInterval",
                    "meanAbsoluteDeviationAroundMedianAverage"}
     /\ windowLen >= 2) =>
        /\ startposInt(windowLen, arg) >= 0
        /\ startpos(windowLen, arg) + total(windowLen, arg) <= windowLen
        /\ \A p \in positionsRead(windowLen, arg) : p < windowLen

\* the window's values in ascending order
sortedWindow ==
    [k \in 1..getCount |-> CHOOSE v \in atSortedIndex(k - 1) : TRUE]

\* the incremental average of s[n..Len(s)] continued from avg
RECURSIVE incrementalAverage(_, _, _)
incrementalAverage(s, n, avg) ==
    IF n > Len(s) THEN avg
    ELSE incrementalAverage(s, n + 1, divResultingT(s[n] - avg, n) + avg)

\* the incremental average of 1 + 2*d (+1 if the length is even) items of the
\* ascending window from index len/2 - d - (1 if the length is even)
averageAroundMedian(d) ==
    LET even == IF getCount % 2 = 0 THEN 1 ELSE 0
        first == getCount \div 2 - d - even
    IN incrementalAverage(
           SubSeq(sortedWindow, first + 1, first + 1 + 2 * d + even), 1, 0)

\* the items 20, 10 in an array of capacity 2
twoItems ==
    [s \in 0..1 |-> [insertOrder |-> s, value |-> IF s = 0 THEN 20 ELSE 10,
                     time |-> 0]]

\* C7: medianAverage(d) returns 0 on an empty buffer and the single value of
\* one item for any d; on len >= 2 items with d < len/2 it returns the
\* incremental average of 1 + 2*d (+1 if len is even) consecutive values of
\* the ascending window from index len/2 - d - (1 if len is even);
\* medianAverage() returns what medianAverage(getCount()/4) returns; and the
\* median average at distance 0 of the two items 10 and 20 is 15.
C7_MedianAverageValue ==
    /\ lastOp = "medianAverage" =>
          IF getCount = 0 THEN ret = 0
          ELSE IF getCount = 1 THEN ret = WindowValues[1]
          ELSE arg < getCount \div 2 => ret = averageAroundMedian(arg)
    /\ lastOp = "medianAverageDefault" =>
          /\ ret = medianAverage(castU8(getCount \div 4))
          /\ getCount >= 2 => ret = averageAroundMedian(getCount \div 4)
    /\ _medianAverage(0, 2, 0, sort(0, 2, twoItems, 2, "value"), 2, "value") = 15

\* C7 witness: medianAverage(1) has returned, on 4 or more items, an average
\* that is none of the window's values.
C7_Witness ==
    /\ lastOp = "medianAverage"
    /\ arg = 1
    /\ getCount >= 4
    /\ arg < getCount \div 2
    /\ \A i \in 1..getCount : WindowValues[i] # ret

\* C8, as claimed: pop(), peek(), peekTime(), median() and average() called
\* on an empty buffer return 0 and leave head, tail, isFull, pushCount and
\* valuesAreGoodIntervals unchanged, the buffer still empty with count 0.
C8_EmptyBufferDefaults ==
    [][(isEmpty /\ lastOp' \in {"pop", "peek", "peekTime", "median", "average"}) =>
          /\ ret' = 0
          /\ UNCHANGED <<head, tail, isFullFlag, pushCount, valuesAreGoodIntervals>>
          /\ isEmpty'
          /\ getCount' = 0
      ]_vars

\* the public operations that return a value computed from the buffer
valueOps ==
    {"pop", "peek", "peekTime", "deleteOld", "minValue", "maxValue", "range",
     "occurenceOfValue", "frequencyOfValue", "average",
     "meanAbsoluteDeviationAroundAverage", "median", "medianAverage",
     "medianAverageDefault", "meanAbsoluteDeviationAroundMedianAverage",
     "medianInterval", "medianAverageInterval", "averageInterval",
     "medianRateOfChange", "medianAverageRateOfChange", "averageRateOfChange"}

\* C9, as claimed: every operation that returns a value, called on an empty
\* buffer, returns 0, divides by no zero and leaves the buffer as it was.
C9_FailSoftOnEmpty ==
    [][(isEmpty /\ lastOp' \in valueOps) =>
          /\ ret' = 0
          /\ fault' # "divzero"
          /\ UNCHANGED buffer
      ]_vars

\* C10, as claimed: medianRateOfChange(), medianAverageRateOfChange(d) and
\* averageRateOfChange() never return from a division 1 / x with x = 0,
\* whatever the non-decreasing timestamps of the pushes were.
C10_RateOfChangeDivisionGuarded ==
    lastOp \in {"medianRateOfChange", "medianAverageRateOfChange",
                "averageRateOfChange"} => fault # "divzero"

\* the interval statistics and the rates of change
intervalOps ==
    {"medianInterval", "medianAverageInterval", "averageInterval",
     "medianRateOfChange", "medianAverageRateOfChange", "averageRateOfChange"}

\* C11: an interval statistic or rate of change called on fewer than 2 items
\* returns 0, runs into no undefined behaviour and changes nothing: the
\* slots, valuesAreGoodIntervals, head, tail, isFull and the push counter
\* are as before.
C11_FewerThanTwoItems ==
    [][(getCount < 2 /\ lastOp' \in intervalOps) =>
          /\ ret' = 0
          /\ fault' = "none"
          /\ UNCHANGED buffer
      ]_vars

\* C11 witness: an interval statistic has returned on a single item whose
\* value is not 0.
C11_Witness ==
    /\ lastOp \in intervalOps
    /\ getCount = 1
    /\ WindowValues[1] # 0
    /\ ~valuesAreGoodIntervals

\* the time differences between consecutive surviving pushes, oldest first
deltas == [i \in 1..(Len(fifo) - 1) |-> fifo[i + 1].time - fifo[i].time]

\* the values at index k of the deltas in ascending order
deltaAtSortedIndex(k) ==
    {v \in {deltas[i] : i \in DOMAIN deltas} :
        /\ Cardinality({i \in DOMAIN deltas : deltas[i] < v}) <= k
        /\ Cardinality({i \in DOMAIN deltas : deltas[i] <= v}) > k}

\* C12: medianInterval() on n >= 2 items returns the element at index
\* (n-1)/2 of the ascending list of the n-1 differences between consecutive
\* timestamps of the window, whatever the values pushed and the interval
\* statistics called before, and the same call made again returns the same;
\* timestamps 0, 10, 25, 40 give 15.
C12_MedianIntervalExact ==
    (lastOp = "medianInterval" /\ getCount >= 2) =>
        /\ ret \in deltaAtSortedIndex((getCount - 1) \div 2)
        /\ medianInterval = ret
        /\ fifoTimes = <<0, 10, 25, 40>> => ret = 15

\* C12 witness: medianInterval() has returned 15 on a wrapped window of four
\* items with timestamps 0, 10, 25, 40 and values that differ.
C12_Witness ==
    /\ lastOp = "medianInterval"
    /\ fifoTimes = <<0, 10, 25, 40>>
    /\ ret = 15
    /\ tail > 0
    /\ fifo[1].value # fifo[2].value

\* the operations that compute a statistic
statisticOps ==
    {"minValue", "maxValue", "range", "occurenceOfValue", "frequencyOfValue",
     "average", "meanAbsoluteDeviationAroundAverage", "median", "medianAverage",
     "medianAverageDefault", "meanAbsoluteDeviationAroundMedianAverage"}
    \cup intervalOps

\* the values of the window are the differences between the timestamps of
\* consecutive items, and 0 for the newest item
valuesAreIntervals ==
    \A i \in 1..getCount :
        WindowValues[i] =
            IF i < getCount THEN castT(castTimeT(WindowTimes[i + 1] - WindowTimes[i]))
                            ELSE 0

\* C13: in every state with valuesAreGoodIntervals set and 2 or more items
\* the value of every item but the newest is the time to the next item and
\* the value of the newest is 0; every push and every pop or deleteOld that
\* removes an item clears valuesAreGoodIntervals; an interval statistic on 2
\* or more items leaves the flag set; and no statistic changes the
\* timestamps of the window or a slot outside the window.
C13_IntervalCacheValid ==
    /\ []((valuesAreGoodIntervals /\ getCount >= 2) => valuesAreIntervals)
    /\ [][/\ lastOp' = "push" => ~valuesAreGoodIntervals'
          /\ (lastOp' \in {"pop", "deleteOld"} /\ tail' # tail) =>
                ~valuesAreGoodIntervals'
          /\ (lastOp' \in {"pop", "deleteOld"} /\ ~isEmpty /\ capacity = 1
                /\ (lastOp' = "pop" \/ ret' = 1)) => ~valuesAreGoodIntervals'
          /\ (lastOp' \in intervalOps /\ getCount >= 2) => valuesAreGoodIntervals'
          /\ lastOp' \in statisticOps =>
                /\ [i \in 1..getCount |-> WindowOf(items')[i].time] = WindowTimes
                /\ \A s \in DOMAIN items :
                      (\A i \in 0..(getCount - 1) : getItemAtPositionPtr(i) # s)
                          => items'[s] = items[s]
         ]_vars

\* C13 witness: with valuesAreGoodIntervals set, median() has returned on
\* three items whose values are the intervals 1, 0 and the newest item's 0.
C13_Witness ==
    /\ valuesAreGoodIntervals
    /\ lastOp = "median"
    /\ getCount = 3
    /\ WindowValues = <<1, 0, 0>>
    /\ WindowTimes = <<0, 1, 1>>

\* C14: in every state head and tail are in 0..capacity-1, getCount() is in
\* 0..capacity and is the number of surviving pushes, getCount() is
\* (head - tail) mod capacity when the buffer is not full, isFull() holds
\* exactly when getCount() is capacity, isEmpty() exactly when getCount() is
\* 0, a full buffer has head = tail, and no buffer is both full and empty.
C14_RingStructure ==
    /\ head \in 0..(capacity - 1)
    /\ tail \in 0..(capacity - 1)
    /\ getCount \in 0..capacity
    /\ getCount = Len(fifo)
    /\ ~isFull => getCount = (head - tail) % capacity
    /\ isFull <=> getCount = capacity
    /\ isEmpty <=> getCount = 0
    /\ isFull => head = tail
    /\ ~(isFull /\ isEmpty)

\* C14 witness: a window of two items that runs over the end of an array of
\* capacity 3, after a pop.
C14_Witness ==
    /\ capacity = 3
    /\ head < tail
    /\ ~isFull
    /\ getCount = 2
    /\ lastOp = "pop"

\* C15, as claimed: no buffer of capacity 0 exists: every constructed buffer
\* has a capacity in 1..255, and no operation computes an index modulo 0.
C15_NoZeroCapacityBuffer ==
    /\ capacity \in 1..(Pow2(CountBits) - 1)
    /\ fault # "modzero"

\* C16, as claimed: every push adds one to getPushCount(), whatever the
\* count was, so that it is the number of pushes since construction or the
\* last resetPushCount(), also past 255; resetPushCount() sets it to 0; and
\* no other operation, and no eviction, changes it.
C16_PushCounter ==
    [][/\ lastOp' = "push" => getPushCount' = getPushCount + 1
       /\ lastOp' = "resetPushCount" => getPushCount' = 0
       /\ lastOp' \notin {"push", "resetPushCount"} => getPushCount' = getPushCount
      ]_vars

\* C17, as claimed: a deleteOld(currentTimeStamp, interval) that removes the
\* oldest item found its age, currentTimeStamp minus its timestamp, above
\* interval; an oldest item of an age below interval is not removed.
C17_DeleteOldRemovesOnlyOld ==
    [][(lastOp' = "deleteOld" /\ ~isEmpty) =>
          LET age == arg'[1] - Head(fifo).time
              removed == Len(fifo') < Len(fifo)
          IN /\ removed => age > arg'[2]
             /\ age < arg'[2] => ~removed
      ]_vars

valueReaders ==
    {"peek", "minValue", "maxValue", "average", "median", "medianAverage",
     "medianAverageDefault"}

\* the values from the smallest to the largest surviving push
liveRange ==
    {v \in 0..(Pow2(TBits) - 1) :
        /\ \E i \in 1..Len(fifo) : fifo[i].value <= v
        /\ \E i \in 1..Len(fifo) : fifo[i].value >= v}

\* C19, as claimed: clear() leaves the buffer empty, not full, with count 0,
\* and the push counter and every slot as they were; the pops after it return
\* the values pushed after it, oldest first; and while every item pushed
\* since the clear() is live, peek and the statistics of the values return a
\* value between the smallest and the largest of those items, never one that
\* a discarded item has entered.
C19_ClearDiscards ==
    [][/\ lastOp' = "clear" =>
            /\ isEmpty' /\ ~isFull' /\ getCount' = 0
            /\ UNCHANGED <<capacity, items, pushCount>>
       /\ (lastOp' = "pop" /\ ~isEmpty) => ret' = Head(fifo).value
       /\ (lastOp' \in valueReaders /\ ~isEmpty /\ getCount = pushCount) =>
            ret' \in liveRange
      ]_vars

\* C20: on a buffer that is not empty peek() returns the value and
\* peekTime() the timestamp of the item in the tail slot, the oldest
\* surviving push, without undefined behaviour and without changing head,
\* tail, isFull, pushCount, valuesAreGoodIntervals or a slot; and pop()
\* returns the value of that same item and removes it.
C20_PeekIsNonDestructivePop ==
    [][/\ (lastOp' \in {"peek", "peekTime"} /\ ~isEmpty) =>
            /\ UNCHANGED buffer
            /\ fault' = "none"
       /\ (lastOp' = "peek" /\ ~isEmpty) =>
            /\ ret' = items[tail].value
            /\ ~overwritten => ret' = Head(fifo).value
       /\ (lastOp' = "peekTime" /\ ~isEmpty) =>
            /\ ret' = items[tail].time
            /\ ret' = Head(fifo).time
       /\ (lastOp' = "pop" /\ ~isEmpty) =>
            /\ ret' = items[tail].value
            /\ fifo' = Tail(fifo)
            /\ tail' = (tail + 1) % capacity
      ]_vars

\* C20 witness: peek() has returned the value of the oldest of two or more
\* items, which differs from the value of the newest, on a window that does
\* not start at slot 0.
C20_Witness ==
    /\ lastOp = "peek"
    /\ getCount >= 2
    /\ tail > 0
    /\ ret = WindowValues[1]
    /\ WindowValues[1] # WindowValues[getCount]

\* the least and the greatest value of the surviving pushes
leastLive ==
    CHOOSE v \in {fifo[i].value : i \in 1..Len(fifo)} :
        \A i \in 1..Len(fifo) : fifo[i].value >= v

greatestLive ==
    CHOOSE v \in {fifo[i].value : i \in 1..Len(fifo)} :
        \A i \in 1..Len(fifo) : fifo[i].value <= v

\* C21: on a buffer that is not empty, wherever its tail is, minValue()
\* returns the least and maxValue() the greatest value of the getCount() live
\* items, whatever the slots outside the window hold, and range() returns
\* their difference; the items 4, 2, 9, 2 give 2, 9 and 7.
C21_MinMaxRange ==
    (~isEmpty /\ lastOp \in {"minValue", "maxValue", "range"}) =>
        /\ getCount = Len(fifo)
        /\ lastOp = "minValue" => ret = leastLive
        /\ lastOp = "maxValue" => ret = greatestLive
        /\ lastOp = "range" => ret = greatestLive - leastLive
        /\ fifoValues = <<4, 2, 9, 2>> =>
              ret = CASE lastOp = "minValue" -> 2
                      [] lastOp = "maxValue" -> 9
                      [] lastOp = "range" -> 7

\* C21 witness: minValue() has returned 4 on the two live items 4, 9 of a
\* window that runs over the end of an array whose other slots hold 2.
C21_Witness ==
    /\ lastOp = "minValue"
    /\ ret = 4
    /\ fifoValues = <<4, 9>>
    /\ head < tail
    /\ \E s \in DOMAIN items : items[s].value = 2

\* the statistics that only read the values
readOnlyOps ==
    {"average", "minValue", "maxValue", "range", "occurenceOfValue",
     "frequencyOfValue", "meanAbsoluteDeviationAroundAverage"}

\* C22: average, minValue, maxValue, range, occurenceOfValue,
\* frequencyOfValue and meanAbsoluteDeviationAroundAverage leave every slot
\* (value, time, insertOrder, physical order), head, tail, the full flag,
\* pushCount and valuesAreGoodIntervals as they were: they never sort or tag.
C22_ReadOnlyStatistics ==
    [][(lastOp = "none" /\ lastOp' \in readOnlyOps) => UNCHANGED buffer]_vars

\* C22 witness: meanAbsoluteDeviationAroundAverage() has returned on a window
\* of two or more items that is not in value order and carries no tags: a
\* sort or a tagging would have left either trace.
C22_Witness ==
    /\ lastOp = "meanAbsoluteDeviationAroundAverage"
    /\ fault = "none"
    /\ getCount >= 2
    /\ WindowValues[1] > WindowValues[2]
    /\ \A s \in DOMAIN items : items[s].insertOrder = 0

\* the number of surviving pushes whose value differs from testValue by
\* less than epsilon
nearValue(testValue, epsilon) ==
    Cardinality({i \in 1..Len(fifo) :
        (IF fifo[i].value >= testValue THEN fifo[i].value - testValue
         ELSE testValue - fifo[i].value) < epsilon})

\* C23: occurenceOfValue(test, epsilon) returns exactly the number of live
\* items with |value - test| < epsilon, also for an unsigned T whose
\* subtraction is modulo 2^w and a value below test; on a buffer that is not
\* empty frequencyOfValue returns that number divided by getCount().
C23_OccurenceCountsNearValues ==
    /\ lastOp = "occurenceOfValue" => ret = nearValue(arg[1], arg[2])
    /\ (lastOp = "frequencyOfValue" /\ ~isEmpty) =>
          ret = divResultingT(nearValue(arg[1], arg[2]), getCount)

\* C24: the insertOrder tags are cast to T before they are compared; for
\* every getCount up to 255 and every T, a signed 8-bit T with more than 128
\* live items included, the cast keeps the order of the tags, so that
\* sortToValues followed by sortToInsertSequence returns the window to
\* insertion order: after median() the items are in the order of their pushes.
C24_RestoreForEveryValueType ==
    lastOp = "median" => WindowPairs = [i \in 1..Len(fifo) |-> <<fifo[i].value, fifo[i].time>>]

\* C25: with the running average avg = (value - avg) / (i + 1) + avg in a
\* signed integer resultingT that holds every difference of two samples (the
\* division truncates toward zero), average() of a window that is not empty
\* lies between minValue() and maxValue(), and is the common value when all
\* live items are equal.
C25_AverageWithinData ==
    (lastOp = "average" /\ ~isEmpty) =>
        /\ minValue <= ret
        /\ ret <= maxValue
        /\ (\A i \in 1..Len(fifo) : fifo[i].value = fifo[1].value) =>
              ret = fifo[1].value

\* C25 witness: average() has returned 5 on the wrapped window 9, 2, 2, where
\* both divisions of the running average truncate.
C25_Witness ==
    /\ lastOp = "average"
    /\ fifoValues = <<9, 2, 2>>
    /\ tail > 0
    /\ ret = 5

====
